---- MODULE Spec2Model ----
(***************************************************************************)
(* where-is-clara: the position prediction core of the frontend            *)
(* (lib/utils.ts, components/HomePage.tsx, components/PortsListPanel.tsx,  *)
(* hooks/usePositions.ts).                                                 *)
(*                                                                         *)
(* Units of the model.                                                     *)
(*  - Time is counted in whole minutes since the epoch.  An ISO-8601       *)
(*    timestamp string is the record [h, m] of its hour and minute.        *)
(*  - Coordinates are metres east (longitude) and metres north (latitude)  *)
(*    of a reference point, on the local tangent plane.  A GeoJSON         *)
(*    coordinate [lon, lat] is the tuple <<x, y>>.  The reference point is *)
(*    0 N 0 E and a nautical mile is a minute of arc, so that a degree is  *)
(*    60 * 1852 units; the routes and ports lie within 0.02 degrees of the *)
(*    equator, where a unit of longitude is a metre as well.               *)
(*  - turf's distances are Euclidean in that plane.  Where the code only   *)
(*    compares or orders distances the model carries their squares (m^2);  *)
(*    along a route, whose legs are axis-parallel, lengths are exact       *)
(*    integers (metres; the code's kilometres times 1000).                 *)
(*  - Speeds are knots; they are multiples of 15 so that the distance      *)
(*    sailed in a whole number of minutes is a whole number of metres.     *)
(*                                                                         *)
(* Three specifications share the variables.  Spec runs the core on the    *)
(* itinerary and the routes of the cruise, minute by minute.  SpecDR       *)
(* applies predictPosition to fixes anywhere on the globe, hours old or    *)
(* ahead of the clock.  SpecRoutes applies densifyLineString and           *)
(* predictPath to routes of any shape, degenerate ones included.  SpecHook  *)
(* runs the positions hook: its requests overlap and their responses       *)
(* arrive in any order, empty or failed at times; SpecHookFair adds that   *)
(* every request settles.                                                  *)
(***************************************************************************)
EXTENDS Integers, Sequences, FiniteSets, TLC

VARIABLES
    now,         \* the wall clock (new Date().getTime()), in minutes
    ports,       \* cruiseData.ports: the itinerary, a sequence of Port
    position,    \* the fix handed to the core: the last Position received
    cruisePath,  \* cruisePath.coordinates: the route's coordinate array
    op,          \* the operation that ran last
    calledAt,    \* the clock when that operation started
    arg,         \* the argument it was given besides the data above
    ret,         \* what it returned
    feed,        \* the fixes the position API has, in the order reported
    hook         \* usePositions and useSettings: their state and requests

vars == <<now, ports, position, cruisePath, op, calledAt, arg, ret, feed, hook>>

-----------------------------------------------------------------------------
(* JavaScript values *)

Null == [kind |-> "null"]

Undefined == [kind |-> "undefined"]

\* Number.POSITIVE_INFINITY, which no arithmetic of the model touches
Infinity == 2147483647

\* an exception thrown and not caught by the function
Raised == [kind |-> "error"]

Abs(n) == IF n < 0 THEN 0 - n ELSE n

Min(a, b) == IF a < b THEN a ELSE b

Max(a, b) == IF a > b THEN a ELSE b

\* { ...obj, k1: v1, ... }: the fields of overrides replace or extend obj's
Spread(obj, overrides) ==
    [k \in (DOMAIN obj) \cup (DOMAIN overrides) |->
        IF k \in DOMAIN overrides THEN overrides[k] ELSE obj[k]]

-----------------------------------------------------------------------------
(* Dates *)

MinutesPerHour == 60

\* new Date(ms).toISOString(): the timestamp string of an instant
toISOString(t) == [h |-> t \div MinutesPerHour, m |-> t % MinutesPerHour]

\* new Date(s).getTime(): the instant of a timestamp string; new Date(null)
\* is the epoch
getTime(s) == IF s = Null THEN 0 ELSE s.h * MinutesPerHour + s.m

-----------------------------------------------------------------------------
(* turf: distance, length, nearest-point-on-line, along, line-slice *)

\* distance(a, b), squared: the code orders distances and compares them with
\* a threshold, which the square preserves
distanceSq(a, b) == (a[1] - b[1]) * (a[1] - b[1]) + (a[2] - b[2]) * (a[2] - b[2])

\* distance(a, b) between two points of one axis-parallel leg
legLength(a, b) == Abs(a[1] - b[1]) + Abs(a[2] - b[2])

\* length(line): the legs' lengths summed
RECURSIVE length(_)
length(coords) ==
    IF Len(coords) < 2 THEN 0
    ELSE legLength(coords[1], coords[2]) + length(Tail(coords))

\* the point of leg a-b nearest to p: p's perpendicular foot, or an end of
\* the leg when the foot falls outside it
nearestPointOnSegment(a, b, p) ==
    <<Max(Min(a[1], b[1]), Min(p[1], Max(a[1], b[1]))),
      Max(Min(a[2], b[2]), Min(p[2], Max(a[2], b[2])))>>

\* the candidate that leg i (coords[i] to coords[i+1]) offers: its nearest
\* point, the distance to it, the index turf reports (the leg's, or the next
\* vertex's when the point is the leg's end) and its arc length from the start
legCandidate(coords, i, p) ==
    LET q == nearestPointOnSegment(coords[i], coords[i + 1], p)
    IN  [coordinates |-> q,
         dist        |-> distanceSq(p, q),
         index       |-> IF q = coords[i + 1] /\ q # coords[i] THEN i + 1 ELSE i,
         location    |-> length(SubSeq(coords, 1, i)) + legLength(coords[i], q)]

\* nearestPointOnLine(line, pt): the legs are scanned in order and a leg
\* replaces the best so far only when it is strictly nearer
RECURSIVE scanLegs(_, _, _, _)
scanLegs(coords, i, p, best) ==
    IF i >= Len(coords) THEN best
    ELSE LET c == legCandidate(coords, i, p)
         IN  scanLegs(coords, i + 1, p,
                      IF best = Undefined \/ c.dist < best.dist THEN c ELSE best)

\* a line without a leg offers no candidate, and turf returns the point it
\* started the scan with
nearestPointOnLine(coords, p) ==
    IF Len(coords) < 2
    THEN [coordinates |-> <<Infinity, Infinity>>, dist |-> Infinity,
          index |-> Undefined, location |-> Undefined]
    ELSE scanLegs(coords, 1, p, Undefined)

\* the point d metres from a towards b on one leg
towards(a, b, d) ==
    <<a[1] + (IF b[1] > a[1] THEN d ELSE IF b[1] < a[1] THEN 0 - d ELSE 0),
      a[2] + (IF b[2] > a[2] THEN d ELSE IF b[2] < a[2] THEN 0 - d ELSE 0)>>

\* along(line, d): walk the vertices; past the last one the last one is
\* returned, and once the walk has overshot d the point is taken back from
\* the vertex reached towards the one before it
RECURSIVE alongFrom(_, _, _, _)
alongFrom(coords, d, i, travelled) ==
    IF i >= Len(coords) /\ d >= travelled THEN coords[Len(coords)]
    ELSE IF travelled >= d
         THEN IF travelled = d THEN coords[i]
              ELSE towards(coords[i], coords[i - 1], travelled - d)
         ELSE alongFrom(coords, d, i + 1,
                        travelled + legLength(coords[i], coords[i + 1]))

\* a line without a vertex leaves point(undefined), which throws
along(coords, d) ==
    IF Len(coords) = 0 THEN Raised ELSE alongFrom(coords, d, 1, 0)

\* lineSlice(startPt, stopPt, line): both points are snapped to the line,
\* ordered by their index, and joined by the vertices between them, in a new
\* coordinate array.  On a line without a leg the indices are undefined:
\* the comparison fails and no vertex lies between them
lineSlice(startPt, stopPt, coords) ==
    LET startVertex == nearestPointOnLine(coords, startPt)
        stopVertex  == nearestPointOnLine(coords, stopPt)
        ends == IF Len(coords) >= 2 /\ startVertex.index <= stopVertex.index
                THEN <<startVertex, stopVertex>>
                ELSE <<stopVertex, startVertex>>
    IN  <<ends[1].coordinates>>
            \o (IF Len(coords) < 2 THEN <<>>
                ELSE SubSeq(coords, ends[1].index + 1, ends[2].index))
            \o <<ends[2].coordinates>>

-----------------------------------------------------------------------------
(* lib/utils.ts: ports *)

\* the fix's coordinate written [lat, lon]
positionCoordinates_swapped(p) == <<p.latitude, p.longitude>>

\* [longitude, latitude] of a fix
positionCoordinates(p) == <<p.longitude, p.latitude>>

\* [port.lon, port.lat]
portCoordinates(port) == <<port.lon, port.lat>>

\* ports.map(port => ({...port, distance: distance(fix, port, meters)})); the
\* distance field holds the square of the metres
withDistance(portList, currentPosition) ==
    [i \in 1..Len(portList) |->
        Spread(portList[i],
               [distance |-> distanceSq(positionCoordinates(currentPosition),
                                        portCoordinates(portList[i]))])]

\* an element moves in front of those equally far as well
RECURSIVE insertByDistance_unstable(_, _)
insertByDistance_unstable(sorted, e) ==
    IF sorted = <<>> THEN <<e>>
    ELSE IF e.distance <= Head(sorted).distance THEN <<e>> \o sorted
    ELSE <<Head(sorted)>> \o insertByDistance_unstable(Tail(sorted), e)

\* Array.prototype.sort((a, b) => a.distance - b.distance): stable, so an
\* element moves in front of those strictly farther only
RECURSIVE insertByDistance(_, _)
insertByDistance(sorted, e) ==
    IF sorted = <<>> THEN <<e>>
    ELSE IF e.distance < Head(sorted).distance THEN <<e>> \o sorted
    ELSE <<Head(sorted)>> \o insertByDistance(Tail(sorted), e)

RECURSIVE sortByDistance(_)
sortByDistance(seq) ==
    IF seq = <<>> THEN <<>>
    ELSE insertByDistance(sortByDistance(SubSeq(seq, 1, Len(seq) - 1)),
                          seq[Len(seq)])

\* array[0]: undefined on an empty array
first(seq) == IF seq = <<>> THEN Undefined ELSE seq[1]

IN_PORT_METERS == 1000

\* a port that departs at the fix's own instant still counts as next
getNextPort_inclusive(portList, currentPosition) ==
    LET departsLater(port) ==
            getTime(port.dep_datetime) >= getTime(currentPosition.timestamp)
        nextPorts == SelectSeq(portList, departsLater)
    IN  IF Len(nextPorts) = 0 THEN Null ELSE nextPorts[1]

\* a port without a departure counts as still to come
getNextPort_openEnded(portList, currentPosition) ==
    LET departsLater(port) ==
            \/ port.dep_datetime = Null
            \/ getTime(port.dep_datetime) > getTime(currentPosition.timestamp)
        nextPorts == SelectSeq(portList, departsLater)
    IN  IF Len(nextPorts) = 0 THEN Null ELSE nextPorts[1]

\* getNextPort(ports, currentPosition): new Date(null) is the epoch, which no
\* fix precedes
getNextPort(portList, currentPosition) ==
    LET departsLater(port) ==
            getTime(port.dep_datetime) > getTime(currentPosition.timestamp)
        nextPorts == SelectSeq(portList, departsLater)
    IN  IF Len(nextPorts) = 0 THEN Null ELSE nextPorts[1]

getClosestPort(portList, currentPosition) ==
    first(sortByDistance(withDistance(portList, currentPosition)))

\* the threshold taken as inclusive
isInPort_inclusive(portList, currentPosition) ==
    IF Len(portList) = 0 THEN FALSE
    ELSE first(sortByDistance(withDistance(portList, currentPosition))).distance
            <= IN_PORT_METERS * IN_PORT_METERS

isInPort(portList, currentPosition) ==
    IF Len(portList) = 0 THEN FALSE
    ELSE first(sortByDistance(withDistance(portList, currentPosition))).distance
            < IN_PORT_METERS * IN_PORT_METERS

-----------------------------------------------------------------------------
(* lib/utils.ts: prediction *)

METERS_PER_NM == 1852

STALE_MINUTES == 5

\* the difference taken the other way round
elapsed_reversed(p, t) == getTime(p.timestamp) - t

\* new Date().getTime() - new Date(position.timestamp).getTime()
elapsed(p, t) == t - getTime(p.timestamp)

\* only a vessel heading due east makes way
distanceKm_easting(p, t) ==
    IF p.course_over_ground = 90
    THEN (p.speed_over_ground * elapsed(p, t) * METERS_PER_NM) \div MinutesPerHour
    ELSE 0

\* distanceKm = speed_over_ground * elapsedHours * 1.852, in metres
distanceKm(p, t) ==
    (p.speed_over_ground * elapsed(p, t) * METERS_PER_NM) \div MinutesPerHour

\* only a negative distance stops the prediction
noDistance_strict(d) == d < 0

\* distanceKm <= 0: no prediction
noDistance(d) == d <= 0

\* the distance sailed is clamped, not the offset it leads to
clampedEndDistance_sailed(startDistance, endDistance, totalLength) ==
    Max(startDistance, Min(endDistance - startDistance, totalLength))

\* Math.max(startDistance, Math.min(endDistance, totalLength))
clampedEndDistance(startDistance, endDistance, totalLength) ==
    Max(startDistance, Min(endDistance, totalLength))

\* unshift() applied to the route's own coordinate array
unshiftTarget_route == "cruisePath"

\* the array that unshift() changes: pathSegment.geometry.coordinates, the
\* array lineSlice built
unshiftTarget == "clipCoords"

\* the predicted fix keeps the source fix's id
predictedFix_sameId(p, t, coordinates) ==
    Spread(p, [timestamp    |-> toISOString(t),
               latitude     |-> coordinates[2],
               longitude    |-> coordinates[1],
               is_predicted |-> TRUE])

\* { ...position, id, timestamp, latitude, longitude, is_predicted }
predictedFix(p, t, coordinates) ==
    Spread(p, [id           |-> p.id \o "-predicted",
               timestamp    |-> toISOString(t),
               latitude     |-> coordinates[2],
               longitude    |-> coordinates[1],
               is_predicted |-> TRUE])

\* predictPath(position, cruisePath), reading the clock at t1 (elapsed time)
\* and at t2 (the predicted fix's timestamp).  The arrays it touches are
\* named: "cruisePath" is the route's, "clipCoords" the one lineSlice makes.
\* The result is what it returns and the route's array as it leaves it.
predictPath(p, coords, t1, t2) ==
    IF noDistance(distanceKm(p, t1))
    THEN [returns |-> Null, cruisePath |-> coords]
    ELSE IF along(coords, 0) = Raised
    THEN [returns |-> Raised, cruisePath |-> coords]
    ELSE
    LET raw           == positionCoordinates(p)
        nearestPoint  == nearestPointOnLine(coords, raw)
        \* nearestPoint.properties.location ?? 0
        startDistance == IF Len(coords) < 2 THEN 0 ELSE nearestPoint.location
        endDistance   == startDistance + distanceKm(p, t1)
        totalLength   == length(coords)
        endPoint      == along(coords,
                           clampedEndDistance(startDistance, endDistance, totalLength))
        arrays0       == [cruisePath |-> coords,
                          clipCoords |-> lineSlice(nearestPoint.coordinates,
                                                   endPoint, coords)]
        arrays1       == [arrays0 EXCEPT ![unshiftTarget] = <<raw>> \o @]
    IN  [returns    |-> [path        |-> arrays1.clipCoords,
                         endPosition |-> predictedFix(p, t2, endPoint)],
         cruisePath |-> arrays1.cruisePath]

\* a fix exactly five minutes old counts as stale
shouldPredictPosition_inclusive(portList, lastPosition, t) ==
    ~isInPort(portList, lastPosition) /\ elapsed(lastPosition, t) >= STALE_MINUTES

shouldPredictPosition(portList, lastPosition, t) ==
    ~isInPort(portList, lastPosition) /\ elapsed(lastPosition, t) > STALE_MINUTES

-----------------------------------------------------------------------------
(* lib/utils.ts: densifying a route *)

\* the quotient rounded down
numSegments_floor(segmentDist, maxSegmentKm) == segmentDist \div maxSegmentKm

\* a leg that is too long is cut in two
numSegments_bisect(segmentDist, maxSegmentKm) == 2

\* Math.ceil(segmentDist / maxSegmentKm), of a positive length and threshold
numSegments(segmentDist, maxSegmentKm) ==
    (segmentDist + maxSegmentKm - 1) \div maxSegmentKm

\* the loop runs up to numSegments itself and pushes the leg's end as well
interpolateGreatCircle_inclusive(start, end, n) ==
    IF start = end THEN <<>>
    ELSE [i \in 1..n |-> towards(start, end, (i * legLength(start, end)) \div n)]

\* interpolateGreatCircle(start, end, numSegments): nothing between two equal
\* points (d === 0); otherwise the points at the fractions i / numSegments of
\* the arc, i = 1 .. numSegments - 1.  On one leg of the plane the arc is the
\* leg itself
interpolateGreatCircle(start, end, n) ==
    IF start = end THEN <<>>
    ELSE [i \in 1..(n - 1) |->
             towards(start, end, (i * legLength(start, end)) \div n)]

\* the loop of densifyLineString from its i-th round on (coordinates[i + 1]
\* is the round's end point)
RECURSIVE densifyFrom(_, _, _, _)
densifyFrom(coordinates, maxSegmentKm, i, result) ==
    IF i >= Len(coordinates) THEN result
    ELSE LET start       == coordinates[i]
             end         == coordinates[i + 1]
             segmentDist == legLength(start, end)
             inserted    == IF segmentDist > maxSegmentKm
                            THEN interpolateGreatCircle(start, end,
                                     numSegments(segmentDist, maxSegmentKm))
                            ELSE <<>>
         IN  densifyFrom(coordinates, maxSegmentKm, i + 1,
                         result \o inserted \o <<end>>)

\* densifyLineString(coordinates, maxSegmentKm): the result starts as
\* [coordinates[0]], which of an empty array is [undefined]
densifyLineString(coordinates, maxSegmentKm) ==
    densifyFrom(coordinates, maxSegmentKm, 1,
                <<IF Len(coordinates) = 0 THEN Undefined ELSE coordinates[1]>>)

-----------------------------------------------------------------------------
(* components/PortsListPanel.tsx: the status of each port *)

\* x || null, of a port or undefined
orNull(x) == IF x = Undefined THEN Null ELSE x

\* the next port is looked up in port as well
nextAndCurrent_eager(portList, currentPosition) ==
    IF currentPosition = Null
    THEN [nextPort |-> orNull(first(portList)), currentPort |-> Null]
    ELSE IF isInPort(portList, currentPosition)
    THEN [nextPort    |-> getNextPort(portList, currentPosition),
          currentPort |-> orNull(getClosestPort(portList, currentPosition))]
    ELSE [nextPort    |-> getNextPort(portList, currentPosition),
          currentPort |-> Null]

\* the memo { nextPort, currentPort }
nextAndCurrent(portList, currentPosition) ==
    IF currentPosition = Null
    THEN [nextPort |-> orNull(first(portList)), currentPort |-> Null]
    ELSE IF isInPort(portList, currentPosition)
    THEN [nextPort    |-> Null,
          currentPort |-> orNull(getClosestPort(portList, currentPosition))]
    ELSE [nextPort    |-> getNextPort(portList, currentPosition),
          currentPort |-> Null]

\* getPortStatus(port), with the memo and Date.now() it reads
getPortStatus(port, memo, t) ==
    IF memo.currentPort # Null /\ port.id = memo.currentPort.id THEN "current"
    ELSE IF memo.nextPort # Null /\ port.id = memo.nextPort.id THEN "next"
    ELSE IF port.dep_datetime = Null THEN "future"
    ELSE IF getTime(port.dep_datetime) < t THEN "past"
    ELSE "future"

-----------------------------------------------------------------------------
(* components/HomePage.tsx: dead reckoning *)

\* Math.cos and Math.sin of a course given in degrees, for the four cardinal
\* courses
cosDeg(c) == CASE c = 0 -> 1 [] c = 90 -> 0 [] c = 180 -> 0 - 1 [] c = 270 -> 0

sinDeg(c) == CASE c = 0 -> 0 [] c = 90 -> 1 [] c = 180 -> 0 [] c = 270 -> 0 - 1

\* the units of one degree of latitude or longitude
UnitsPerDegree == 60 * METERS_PER_NM

\* Math.cos of a latitude, as a fraction: 1 within 0.02 degrees of the
\* equator (to seven digits), 1/2 at 60 degrees north or south.  At other
\* latitudes the model sails due north or south only, where the cosine
\* divides zero
cosLat(lat) ==
    CASE Abs(lat) * 50 <= UnitsPerDegree -> [num |-> 1, den |-> 1]
      [] Abs(lat) = 60 * UnitsPerDegree  -> [num |-> 1, den |-> 2]

\* deltaLon without the division by cos(lat)
deltaLon_planar(distanceNm, course, lat) == distanceNm * sinDeg(course)

\* deltaLon = distanceNm * sin(courseRad) / (60 * cos(latRad)) degrees
deltaLon(distanceNm, course, lat) ==
    IF sinDeg(course) = 0 THEN 0
    ELSE (distanceNm * sinDeg(course) * cosLat(lat).den) \div cosLat(lat).num

\* predictPosition(position): distanceNm is carried in units (nautical
\* miles times 1852), in which deltaLat = distanceNm * cos(courseRad) / 60
\* degrees is distanceNm * cos(course) units
predictPosition(p, t1, t2) ==
    LET distanceNm == (p.speed_over_ground * elapsed(p, t1) * METERS_PER_NM)
                          \div MinutesPerHour
        deltaLat   == distanceNm * cosDeg(p.course_over_ground)
    IN  Spread(p, [id           |-> p.id \o "-predicted",
                   timestamp    |-> toISOString(t2),
                   latitude     |-> p.latitude + deltaLat,
                   longitude    |-> p.longitude
                                      + deltaLon(distanceNm, p.course_over_ground,
                                                 p.latitude),
                   is_predicted |-> TRUE])

-----------------------------------------------------------------------------
(* hooks/usePositions.ts, hooks/settings.ts: the positions hook *)

\* the data is left in the order received
sortByTimestamp_asReceived(data) == data

\* data.sort((a, b) => time(a) - time(b)): stable, so a fix moves in front of
\* those strictly later only
RECURSIVE insertByTimestamp(_, _)
insertByTimestamp(sorted, e) ==
    IF sorted = <<>> THEN <<e>>
    ELSE IF getTime(e.timestamp) < getTime(Head(sorted).timestamp)
         THEN <<e>> \o sorted
    ELSE <<Head(sorted)>> \o insertByTimestamp(Tail(sorted), e)

RECURSIVE sortByTimestamp(_)
sortByTimestamp(data) ==
    IF data = <<>> THEN <<>>
    ELSE insertByTimestamp(sortByTimestamp(SubSeq(data, 1, Len(data) - 1)),
                           data[Len(data)])

\* array[array.length - 1]: undefined on an empty array
last(seq) == IF seq = <<>> THEN Undefined ELSE seq[Len(seq)]

\* lastPosition.timestamp, the first thing shouldPredictPosition evaluates,
\* throws a TypeError when lastPosition is undefined
throwsOnRead(lastPosition) == lastPosition = Undefined

\* the page before the hook existed:
\* if (shouldPredictPosition(...)) setPredictedPosition(predicted), with no
\* else branch, so the prediction held stays when none is due
keepOrPredict(held, should, predicted) ==
    IF should THEN predicted ELSE held

\* if (shouldPredictPosition(...)) setPredictedPath(predicted)
\* else setPredictedPath(null)
supersede(held, should, predicted) ==
    IF should THEN predicted ELSE Null

\* a response that is processed clears the error
errorAfterSuccess_cleared(error) == Null

\* the try block never calls setError
errorAfterSuccess(error) == error

\* the spinner is taken down after a fetch that succeeded only
loadingAfterFirst_onSuccess(failed) == failed

\* await fetchPositions(...); setLoading(false): fetchPositions catches its
\* errors, so the await returns whether the fetch succeeded or failed
loadingAfterFirst(failed) == FALSE

\* useState: no positions, no prediction, loading, no error; no settings yet.
\* inFlight are the requests awaiting their response, issued counts them.
\* predictedPosition is the dead-reckoned fix the page held itself before the
\* hook existed; its fetchPositions handled the same responses.
\* heldFrom and succeeded are bookkeeping: the request whose data is held
\* and the latest issued of the requests that have succeeded
HookIdle ==
    [settings      |-> Null,
     positions     |-> <<>>,
     predictedPath |-> Null,
     loading       |-> TRUE,
     error         |-> Null,
     inFlight      |-> {},
     issued        |-> 0,
     predictedPosition |-> Null,
     heldFrom      |-> 0,
     succeeded     |-> 0]

\* positionApi.getRange(...) called at t: the server answers from the fixes
\* it has at that moment, and the answer travels for a while
request(h, fixes, kind, t) ==
    LET reported(f) == getTime(f.timestamp) <= t
    IN  [seq |-> h.issued + 1, kind |-> kind,
         snapshot |-> SelectSeq(fixes, reported)]

\* fetchPositions(...) called: one more request in flight
issue(h, fixes, kind, t) ==
    [h EXCEPT !.inFlight = @ \cup {request(h, fixes, kind, t)},
              !.issued   = @ + 1]

\* the catch block resets what the hook holds as well
failed_reset(h, message) ==
    [h EXCEPT !.error = [message |-> message], !.positions = <<>>,
              !.predictedPath = Null]

\* the catch block: setError(err.message), and nothing else.  The string
\* held is written [message |-> ...]
failed(h, message) == [h EXCEPT !.error = [message |-> message]]

\* the try block of fetchPositions once the data of request r is there,
\* reading the clock at t1 and t2.  The result is the hook as it leaves it
\* and the route's array as predictPath leaves it
received(h, r, data, portList, coords, t1, t2) ==
    LET sortedPositions == sortByTimestamp(data)
        lastPosition    == last(sortedPositions)
        should          == shouldPredictPosition(portList, lastPosition, t1)
        out             == predictPath(lastPosition, coords, t1, t2)
    IN  IF throwsOnRead(lastPosition)
        THEN [hook |-> failed(h, "Cannot read properties of undefined"),
              cruisePath |-> coords]
        ELSE IF should /\ out.returns = Raised
        THEN [hook |-> failed(h, "coordinates is required"),
              cruisePath |-> coords]
        ELSE [hook |-> [h EXCEPT !.predictedPath =
                                     supersede(@, should, out.returns),
                                 !.positions = sortedPositions,
                                 !.error = errorAfterSuccess(@),
                                 !.heldFrom = r.seq,
                                 !.succeeded = Max(@, r.seq),
                                 !.predictedPosition =
                                     keepOrPredict(@, should,
                                         predictPosition(lastPosition, t1, t2))],
              cruisePath |-> IF should THEN out.cruisePath ELSE coords]

\* loadPositions after its await: setLoading(false), then the fetch of the
\* whole cruise is issued; nothing of it after the other fetches
settled(h, r, fixes, hasFailed, t) ==
    IF r.kind = "first"
    THEN issue([h EXCEPT !.loading = loadingAfterFirst(hasFailed)],
               fixes, "full", t)
    ELSE h

\* what HomePage renders: the spinner while loading, else the error box
\* when error is set, else the map
view(h) ==
    IF h.loading THEN "loading"
    ELSE IF h.error # Null THEN "error"
    ELSE "map"

-----------------------------------------------------------------------------
(* The inputs *)

MaxNow == 7

MaxPorts == 2

\* how far the clock may move between two reads inside one call
ClockDrift == {0, 1}

\* the itinerary's stops; the final one has no departure
Port(id, lon, lat, dep) == [id |-> id, lon |-> lon, lat |-> lat, dep_datetime |-> dep]

PortCandidates ==
    { Port("GOA",  463,    0, toISOString(1)),
      Port("NCE", 1463,    0, toISOString(3)),
      Port("CIV", 1063,  800, toISOString(5)),
      Port("END", 2315, 3200, Null) }

RECURSIVE PortLists(_)
PortLists(n) ==
    IF n = 0 THEN { <<>> }
    ELSE LET shorter == PortLists(n - 1)
         IN  shorter \cup
             { Append(l, c) : l \in { s \in shorter : Len(s) = n - 1 },
                              c \in PortCandidates }

DistinctIds(l) == \A i, j \in 1..Len(l) : l[i].id = l[j].id => i = j

\* routes whose legs run east-west or north-south
Routes ==
    { << <<0, 0>>, <<1852, 0>> >>,
      << <<0, 0>>, <<926, 0>>, <<926, 926>>, <<2315, 926>> >> }

FixCoordinates == { <<463, 0>>, <<463, 300>>, <<926, 0>>, <<2315, 1200>> }

FixTimes == {0, 3}

Speeds == {0, 15}

Positions ==
    { [id |-> "fix7", mmsi |-> "247031200",
       latitude |-> c[2], longitude |-> c[1],
       timestamp |-> toISOString(ts), navigation_status |-> 0,
       speed_over_ground |-> sog, course_over_ground |-> 90, heading |-> 92] :
      c \in FixCoordinates, ts \in FixTimes, sog \in Speeds }

-----------------------------------------------------------------------------
(* The state machine: the clock runs, and the callers (the positions hook,
   the ports panel, the page) call into the core with the data they hold *)

Init ==
    /\ now = 0
    /\ ports \in { l \in PortLists(MaxPorts) : DistinctIds(l) }
    /\ position \in Positions
    /\ cruisePath \in Routes
    /\ op = "none"
    /\ calledAt = 0
    /\ arg = Null
    /\ ret = Null
    /\ feed = <<>>
    /\ hook = HookIdle

\* time passes; the last result has been consumed
Tick ==
    /\ now < MaxNow
    /\ now' = now + 1
    /\ op' = "none"
    /\ calledAt' = now'
    /\ arg' = Null
    /\ ret' = Null
    /\ UNCHANGED <<ports, position, cruisePath, feed, hook>>

PredictPath ==
    \E d \in ClockDrift :
        LET out == predictPath(position, cruisePath, now, now + d)
        IN  /\ now + d <= MaxNow
            /\ now' = now + d
            /\ op' = "predictPath"
            /\ calledAt' = now
            /\ arg' = Null
            /\ ret' = out.returns
            /\ cruisePath' = out.cruisePath
            /\ UNCHANGED <<ports, position, feed, hook>>

\* the page predicts from its last fix once that fix is more than five
\* minutes old
PredictPosition ==
    \E d \in ClockDrift :
        /\ elapsed(position, now) > STALE_MINUTES
        /\ now + d <= MaxNow
        /\ now' = now + d
        /\ op' = "predictPosition"
        /\ calledAt' = now
        /\ arg' = Null
        /\ ret' = predictPosition(position, now, now + d)
        /\ UNCHANGED <<ports, position, cruisePath, feed, hook>>

ShouldPredictPosition ==
    /\ op' = "shouldPredictPosition"
    /\ calledAt' = now
    /\ arg' = Null
    /\ ret' = shouldPredictPosition(ports, position, now)
    /\ UNCHANGED <<now, ports, position, cruisePath, feed, hook>>

IsInPort ==
    /\ op' = "isInPort"
    /\ calledAt' = now
    /\ arg' = Null
    /\ ret' = isInPort(ports, position)
    /\ UNCHANGED <<now, ports, position, cruisePath, feed, hook>>

GetNextPort ==
    /\ op' = "getNextPort"
    /\ calledAt' = now
    /\ arg' = Null
    /\ ret' = getNextPort(ports, position)
    /\ UNCHANGED <<now, ports, position, cruisePath, feed, hook>>

GetClosestPort ==
    /\ op' = "getClosestPort"
    /\ calledAt' = now
    /\ arg' = Null
    /\ ret' = getClosestPort(ports, position)
    /\ UNCHANGED <<now, ports, position, cruisePath, feed, hook>>

\* the panel is rendered with the last fix, or with none before the first
\* one has arrived, and gives every port of the list its status
PortsListPanel ==
    \E currentPosition \in {position, Null} :
        /\ op' = "PortsListPanel"
        /\ calledAt' = now
        /\ arg' = currentPosition
        /\ ret' = [i \in 1..Len(ports) |->
                      getPortStatus(ports[i],
                                    nextAndCurrent(ports, currentPosition), now)]
        /\ UNCHANGED <<now, ports, position, cruisePath, feed, hook>>

Next ==
    \/ Tick
    \/ PredictPath
    \/ PredictPosition
    \/ ShouldPredictPosition
    \/ IsInPort
    \/ GetNextPort
    \/ GetClosestPort
    \/ PortsListPanel

Spec == Init /\ [][Next]_vars

-----------------------------------------------------------------------------
(* Dead reckoning over hours and degrees: the page predicts from a fix that
   may be hours old and may lie anywhere on the globe *)

MaxHours == 2

MaxMinutesPastHour == 1

\* the equator, 60 N and 89 N
DRLatitudes == {0, 60 * UnitsPerDegree, 89 * UnitsPerDegree}

\* the prime meridian and 179.5 E
DRLongitudes == {0, 179 * UnitsPerDegree + UnitsPerDegree \div 2}

Courses == {0, 90, 180, 270}

\* what the API may deliver as speed_over_ground, a negative number included
DRSpeeds == {0 - 15, 0, 15, 60}

DRFixTimes == {0, MinutesPerHour}

DRPositions ==
    { p \in
        { [id |-> "fix7", mmsi |-> "247031200",
           latitude |-> lat, longitude |-> lon,
           timestamp |-> toISOString(ts), navigation_status |-> 0,
           speed_over_ground |-> sog, course_over_ground |-> cog,
           heading |-> cog] :
          lat \in DRLatitudes, lon \in DRLongitudes, ts \in DRFixTimes,
          sog \in DRSpeeds, cog \in Courses } :
      sinDeg(p.course_over_ground) = 0
          \/ Abs(p.latitude) \in {0, 60 * UnitsPerDegree} }

InitDR ==
    /\ now = 0
    /\ ports = <<>>
    /\ position \in DRPositions
    /\ cruisePath = <<>>
    /\ op = "none"
    /\ calledAt = 0
    /\ arg = Null
    /\ ret = Null
    /\ feed = <<>>
    /\ hook = HookIdle

\* the next whole hour strikes; the last result has been consumed
TickHour ==
    /\ now \div MinutesPerHour < MaxHours
    /\ now' = (now \div MinutesPerHour + 1) * MinutesPerHour
    /\ op' = "none"
    /\ calledAt' = now'
    /\ arg' = Null
    /\ ret' = Null
    /\ UNCHANGED <<ports, position, cruisePath, feed, hook>>

\* predictPosition applied to whatever fix and clock it is given
DeadReckon ==
    \E d \in ClockDrift :
        /\ (now + d) % MinutesPerHour <= MaxMinutesPastHour
        /\ now' = now + d
        /\ op' = "predictPosition"
        /\ calledAt' = now
        /\ arg' = Null
        /\ ret' = predictPosition(position, now, now + d)
        /\ UNCHANGED <<ports, position, cruisePath, feed, hook>>

NextDR ==
    \/ TickHour
    \/ DeadReckon

SpecDR == InitDR /\ [][NextDR]_vars

-----------------------------------------------------------------------------
(* Routes of any shape: empty, of a single point, with repeated points and
   with legs longer than the threshold of densifyLineString *)

MaxRoutePoints == 3

RoutePoints == { <<0, 0>>, <<120, 0>>, <<120, 100>>, <<420, 100>> }

\* two points of one leg: they share a coordinate
OneLeg(a, b) == a[1] = b[1] \/ a[2] = b[2]

RECURSIVE RouteShapes(_)
RouteShapes(n) ==
    IF n = 0 THEN { <<>> }
    ELSE LET shorter == RouteShapes(n - 1)
         IN  shorter \cup
             { Append(r, q) : r \in { s \in shorter : Len(s) = n - 1 },
                              q \in RoutePoints }

\* maxSegmentKm, in the model's metres: thresholds of the size of the legs
MaxSegments == {50, 100}

InitRoutes ==
    /\ now = 0
    /\ ports = <<>>
    /\ position \in Positions
    /\ cruisePath \in { r \in RouteShapes(MaxRoutePoints) :
                          \A i \in 1..(Len(r) - 1) : OneLeg(r[i], r[i + 1]) }
    /\ op = "none"
    /\ calledAt = 0
    /\ arg = Null
    /\ ret = Null
    /\ feed = <<>>
    /\ hook = HookIdle

DensifyLineString ==
    \E m \in MaxSegments :
        /\ op' = "densifyLineString"
        /\ calledAt' = now
        /\ arg' = m
        /\ ret' = densifyLineString(cruisePath, m)
        /\ UNCHANGED <<now, ports, position, cruisePath, feed, hook>>

NextRoutes ==
    \/ Tick
    \/ PredictPath
    \/ DensifyLineString

SpecRoutes == InitRoutes /\ [][NextRoutes]_vars

-----------------------------------------------------------------------------
(* The positions hook at work: the settings arrive, the hook fetches the last
   day, then the whole cruise, and polls every minute; the responses arrive
   in any order, or fail.  A response is processed within one minute of the
   clock. *)

MaxInFlight == 2

\* the minute at which the page is opened
PageOpenedAt == 4

Settings == [vessel_mmsi |-> "247031200", cruise_start_date |-> toISOString(0)]

Fix(id, c, ts, sog) ==
    [id |-> id, mmsi |-> "247031200",
     latitude |-> c[2], longitude |-> c[1],
     timestamp |-> toISOString(ts), navigation_status |-> 0,
     speed_over_ground |-> sog, course_over_ground |-> 90, heading |-> 92]

\* under way on the route, more than 1000 m from every port
AtSea == <<926, 926>>

\* alongside in the first port
Alongside == <<463, 300>>

HookPorts == << Port("GOA", 463, 0, toISOString(1)), Port("END", 2315, 3200, Null) >>

HookRoute == << <<0, 0>>, <<926, 0>>, <<926, 926>>, <<2315, 926>> >>

\* what the API comes to hold: each fix is reported at its own timestamp
Feeds ==
    { << Fix("fix1", AtSea, 0, 15) >>,
      << Fix("fix1", AtSea, 0, 15), Fix("fix2", Alongside, 6, 0) >>,
      << Fix("fix1", AtSea, 0, 15), Fix("fix2", AtSea, 6, 15) >>,
      << Fix("fix1", Alongside, 0, 0), Fix("fix2", AtSea, 1, 15) >>,
      << Fix("fix1", AtSea, 1, 15), Fix("fix2", AtSea, 1, 15) >> }

\* the API's order is its own: the newest fix first
RECURSIVE Reverse(_)
Reverse(seq) ==
    IF seq = <<>> THEN <<>> ELSE Append(Reverse(Tail(seq)), Head(seq))

InitHook ==
    /\ now = PageOpenedAt
    /\ ports = HookPorts
    /\ position = Null
    /\ cruisePath = HookRoute
    /\ op = "none"
    /\ calledAt = PageOpenedAt
    /\ arg = Null
    /\ ret = Null
    /\ feed \in Feeds
    /\ hook = HookIdle

\* settingsApi.getSettings().then(setSettings): the effect runs again, calls
\* loadPositions, whose first fetch goes out, and starts the interval
SettingsArrive ==
    /\ hook.settings = Null
    /\ hook' = issue([hook EXCEPT !.settings = Settings], feed, "first", now)
    /\ op' = "settings"
    /\ calledAt' = now
    /\ arg' = Null
    /\ ret' = Null
    /\ UNCHANGED <<now, ports, position, cruisePath, feed>>

\* a minute passes; with the interval running its callback issues a fetch
HookTick ==
    /\ now < MaxNow
    /\ now' = now + 1
    /\ IF hook.settings = Null THEN UNCHANGED hook
       ELSE /\ Cardinality(hook.inFlight) < MaxInFlight
            /\ hook' = issue(hook, feed, "poll", now')
    /\ op' = "tick"
    /\ calledAt' = now'
    /\ arg' = Null
    /\ ret' = Null
    /\ UNCHANGED <<ports, position, cruisePath, feed>>

\* the response of a request arrives, with the fixes of its snapshot or with
\* none, and fetchPositions runs on from its await
Respond ==
    \E r \in hook.inFlight :
        \E data \in {Reverse(r.snapshot), <<>>} :
            \E out \in {received([hook EXCEPT !.inFlight = @ \ {r}], r, data,
                                 ports, cruisePath, now, now)} :
                /\ hook' = settled(out.hook, r, feed, out.hook.heldFrom # r.seq,
                                   now)
                /\ cruisePath' = out.cruisePath
                /\ position' = IF out.hook.heldFrom = r.seq
                               THEN last(out.hook.positions)
                               ELSE position
                /\ op' = "response"
                /\ calledAt' = now
                /\ arg' = data
                /\ ret' = Null
                /\ UNCHANGED <<now, ports, feed>>

\* the request fails: the network is down or the API answers with an error
Fail ==
    \E r \in hook.inFlight :
        /\ hook' = settled(failed([hook EXCEPT !.inFlight = @ \ {r}],
                                  "API error"),
                           r, feed, TRUE, now)
        /\ op' = "failure"
        /\ calledAt' = now
        /\ arg' = Null
        /\ ret' = Null
        /\ UNCHANGED <<now, ports, position, cruisePath, feed>>

NextHook ==
    \/ SettingsArrive
    \/ HookTick
    \/ Respond
    \/ Fail

SpecHook == InitHook /\ [][NextHook]_vars

\* await positionApi.getRange(...): the promise of a request in flight
\* settles, with the data or with an error
Settle == Respond \/ Fail

\* the browser settles every fetch: no request stays in flight for ever
SpecHookFair == SpecHook /\ WF_vars(Settle)

-----------------------------------------------------------------------------
(* What the claims speak of, read off the state after a call *)

\* the fix's raw coordinate
FixPoint == <<position.longitude, position.latitude>>

\* minutes between the fix and the call's reading of the clock
ElapsedAtCall == calledAt - getTime(position.timestamp)

\* speed x elapsed hours x 1.852 km, in metres
DeadReckoned == (position.speed_over_ground * ElapsedAtCall * 1852) \div 60

\* the fix's projection onto the route and its arc length
Projection == nearestPointOnLine(cruisePath, FixPoint)

StartArcLen == Projection.location

PathLength == length(cruisePath)

PathReturned == op = "predictPath" /\ ret # Null /\ ret # Raised

\* the coordinate of the predicted fix
EndPoint == <<ret.endPosition.longitude, ret.endPosition.latitude>>

\* the arc length at which a point of the route lies
ArcLenOf(q) == nearestPointOnLine(cruisePath, q).location

OnRoute(q) == nearestPointOnLine(cruisePath, q).dist = 0

\* some port lies less than 1000 m from the fix
SomePortWithin1000m ==
    \E i \in 1..Len(ports) :
        distanceSq(FixPoint, <<ports[i].lon, ports[i].lat>>) < 1000 * 1000

-----------------------------------------------------------------------------
(* C1..C10 *)

\* C1: the predicted end of predictPath lies on the route at arc length
\* startArcLen + distance, clamped to [startArcLen, pathLength(route)]: never
\* beyond the route's end and never behind the fix's projection.
C1_EndClamped ==
    PathReturned =>
        /\ OnRoute(EndPoint)
        /\ ArcLenOf(EndPoint) =
              (IF StartArcLen + DeadReckoned > PathLength THEN PathLength
               ELSE StartArcLen + DeadReckoned)
        /\ StartArcLen <= ArcLenOf(EndPoint)
        /\ ArcLenOf(EndPoint) <= PathLength

\* a prediction that ran past the route's end and was held at it, from a fix
\* whose projection lies before the end
C1_Witness ==
    /\ PathReturned
    /\ StartArcLen + DeadReckoned > PathLength
    /\ StartArcLen < PathLength
    /\ ArcLenOf(EndPoint) = PathLength

\* C2: predictPath returns null whenever speed x elapsed time is not
\* positive, so for every fix with speed 0 and for zero elapsed time.
C2_NullWithoutDistance ==
    (op = "predictPath" /\ position.speed_over_ground * ElapsedAtCall <= 0)
        => ret = Null

\* a moving vessel asked for a prediction at the very instant of its fix
C2_Witness ==
    /\ op = "predictPath"
    /\ position.speed_over_ground > 0
    /\ ElapsedAtCall = 0
    /\ ret = Null

\* C3: shouldPredictPosition is true exactly when the fix is not within
\* 1000 m of a port and more than 5 minutes have passed since the fix.
C3_ShouldPredict ==
    op = "shouldPredictPosition" =>
        ret = (~SomePortWithin1000m /\ ElapsedAtCall > 5)

\* exactly five minutes after a fix at sea: no prediction yet
C3_Witness ==
    /\ op = "shouldPredictPosition"
    /\ ~SomePortWithin1000m
    /\ ports # <<>>
    /\ ElapsedAtCall = 5
    /\ ret = FALSE

\* C4: isInPort is true exactly when some port is less than 1000 m from the
\* fix: false for no ports, true at a port's own coordinate, false when the
\* nearest port is 1000 m away or more.
C4_IsInPort ==
    op = "isInPort" => ret = SomePortWithin1000m

\* the nearest port is exactly 1000 m away: not in port
C4_Witness ==
    /\ op = "isInPort"
    /\ ret = FALSE
    /\ \E i \in 1..Len(ports) :
          distanceSq(FixPoint, <<ports[i].lon, ports[i].lat>>) = 1000 * 1000

\* port i has a scheduled departure strictly later than the fix
DepartsLater(i) ==
    /\ ports[i].dep_datetime # Null
    /\ getTime(ports[i].dep_datetime) > getTime(position.timestamp)

\* the ports that have a departure are listed in the order of their departures
OrderedBySchedule ==
    \A i, j \in 1..Len(ports) :
        (i < j /\ ports[i].dep_datetime # Null /\ ports[j].dep_datetime # Null)
            => getTime(ports[i].dep_datetime) <= getTime(ports[j].dep_datetime)

\* ret is the port with the earliest departure among those departing later
EarliestLater ==
    IF \A i \in 1..Len(ports) : ~DepartsLater(i) THEN ret = Null
    ELSE \E i \in 1..Len(ports) :
            /\ DepartsLater(i)
            /\ ret = ports[i]
            /\ \A j \in 1..Len(ports) :
                  DepartsLater(j) => getTime(ports[i].dep_datetime)
                                        <= getTime(ports[j].dep_datetime)

\* ret is the first port, in input order, among those departing later
FirstLater ==
    IF \A i \in 1..Len(ports) : ~DepartsLater(i) THEN ret = Null
    ELSE \E i \in 1..Len(ports) :
            /\ DepartsLater(i)
            /\ ret = ports[i]
            /\ \A j \in 1..(i - 1) : ~DepartsLater(j)

\* C5 as stated: getNextPort returns the port with the earliest departure
\* among those departing strictly later than the fix, null when there is none.
C5_EarliestLater == op = "getNextPort" => EarliestLater

\* C5, amended: getNextPort returns the first port in input order whose
\* departure is strictly later than the fix (a departure equal to the fix's
\* timestamp does not count), null when there is none; that port has the
\* earliest such departure when the ports are ordered by schedule.
C5_FirstLater ==
    op = "getNextPort" =>
        /\ FirstLater
        /\ OrderedBySchedule => EarliestLater

\* a port departing at the fix's own instant is passed over for a later one
C5_Witness ==
    /\ op = "getNextPort"
    /\ ret # Null
    /\ OrderedBySchedule
    /\ \E j \in 1..Len(ports) : ports[j].dep_datetime = position.timestamp

\* C6: getClosestPort returns null when the port list is empty.
C6_NullOnEmpty ==
    (op = "getClosestPort" /\ ports = <<>>) => ret = Null

PortDistanceSq(i) == distanceSq(FixPoint, <<ports[i].lon, ports[i].lat>>)

\* C7: for a non-empty list getClosestPort returns a port at minimal distance
\* from the fix, the first in input order among those equally near.
C7_ClosestFirst ==
    (op = "getClosestPort" /\ ports # <<>>) =>
        \E i \in 1..Len(ports) :
            /\ \A k \in DOMAIN ports[i] : ret[k] = ports[i][k]
            /\ \A j \in 1..Len(ports) : PortDistanceSq(i) <= PortDistanceSq(j)
            /\ \A j \in 1..(i - 1) : PortDistanceSq(j) > PortDistanceSq(i)

\* two ports equally near, and the first of them returned
C7_Witness ==
    /\ op = "getClosestPort"
    /\ Len(ports) = 2
    /\ PortDistanceSq(1) = PortDistanceSq(2)
    /\ ret.id = ports[1].id

\* f is a predicted fix of the source fix: flagged, renamed, and otherwise
\* the source fix but for timestamp, latitude and longitude
PredictedFrom(f) ==
    /\ DOMAIN f = (DOMAIN position) \cup {"is_predicted"}
    /\ f.is_predicted = TRUE
    /\ f.id = position.id \o "-predicted"
    /\ \A k \in (DOMAIN position) \ {"id", "timestamp", "latitude", "longitude"} :
          f[k] = position[k]

\* C8: every predicted fix, of predictPosition and of predictPath, is flagged
\* predicted, is named fix.id + "-predicted", and keeps the fix's vessel,
\* navigation status, speed, course and heading.
C8_PredictedFix ==
    /\ PathReturned => PredictedFrom(ret.endPosition)
    /\ op = "predictPosition" => PredictedFrom(ret)

\* a route-aware prediction that moved the vessel
C8_Witness ==
    /\ PathReturned
    /\ EndPoint # FixPoint
    /\ ret.endPosition.timestamp # position.timestamp

\* C9: neither predictPosition nor predictPath changes the fix or the route's
\* coordinate array it was given.
C9_InputsUnchanged ==
    [][(op' \in {"predictPath", "predictPosition"})
          => (position' = position /\ cruisePath' = cruisePath)]_vars

\* a returned path that starts with the raw fix while the route is as given
C9_Witness ==
    /\ PathReturned
    /\ ret.path[1] = FixPoint
    /\ cruisePath \in Routes
    /\ cruisePath[1] # FixPoint

\* arc length of the route's k-th vertex
VertexArcLen(k) == length(SubSeq(cruisePath, 1, k))

\* the route's vertices that lie after arc length s and not after e, in order
VerticesWithin(s, e) ==
    LET ks == { k \in 1..Len(cruisePath) : s < VertexArcLen(k) /\ VertexArcLen(k) <= e }
        k0 == CHOOSE k \in ks : \A l \in ks : k <= l
    IN  [n \in 1..Cardinality(ks) |-> cruisePath[k0 + n - 1]]

-----------------------------------------------------------------------------
\* C11: predictPosition moves the fix by distanceNm = speed x elapsed hours
\* along its course: deltaLat = distanceNm * cos(course) / 60 and deltaLon =
\* distanceNm * sin(course) / (60 * cos(lat)) degrees, the rest of the fix
\* aside.  From the equator on course 0 at 60 kn one hour makes one degree of
\* latitude and no longitude; at speed 0 the fix keeps its coordinates.
C11_DeadReckoning ==
    op = "predictPosition" =>
        LET cog == position.course_over_ground
            c   == cosLat(position.latitude)
        IN  /\ ret.latitude = position.latitude + DeadReckoned * cosDeg(cog)
            /\ sinDeg(cog) = 0 => ret.longitude = position.longitude
            /\ sinDeg(cog) # 0 =>
                   (ret.longitude - position.longitude) * c.num
                       = DeadReckoned * sinDeg(cog) * c.den
            /\ (position.latitude = 0 /\ cog = 0
                    /\ position.speed_over_ground = 60
                    /\ ElapsedAtCall = MinutesPerHour) =>
                   /\ ret.latitude = UnitsPerDegree
                   /\ ret.longitude = position.longitude
            /\ position.speed_over_ground = 0 =>
                   /\ ret.latitude = position.latitude
                   /\ ret.longitude = position.longitude

C11_Witness ==
    /\ op = "predictPosition"
    /\ position.latitude = 0
    /\ position.course_over_ground = 0
    /\ position.speed_over_ground = 60
    /\ ElapsedAtCall = MinutesPerHour
    /\ ret.latitude = UnitsPerDegree

-----------------------------------------------------------------------------
\* C12: given a fix whose timestamp is later than the clock, the elapsed time
\* counts as zero in both strategies: predictPosition returns the fix's own
\* latitude and longitude, predictPath predicts no movement, and no negative
\* distance is applied.
C12_FutureFixStaysPut ==
    (ElapsedAtCall < 0 /\ position.speed_over_ground >= 0) =>
        /\ op = "predictPosition" =>
               /\ ret.latitude = position.latitude
               /\ ret.longitude = position.longitude
        /\ op = "predictPath" =>
               ret = Null \/ EndPoint = Projection.coordinates

-----------------------------------------------------------------------------
\* C13: a prediction invoked with an invalid fix, such as one with a negative
\* speed, yields an explicit error, which is neither the null of "no
\* prediction" nor a predicted coordinate.
C13_InvalidInputSignalled ==
    (op \in {"predictPosition", "predictPath"}
         /\ position.speed_over_ground < 0) =>
        ret = Raised

-----------------------------------------------------------------------------
\* C14: for every valid source fix (speed at least 0, latitude within 90 and
\* longitude within 180 degrees) the predicted fix's latitude stays within
\* [-90, 90] and its longitude within [-180, 180] degrees.
C14_CoordinatesInRange ==
    (op = "predictPosition"
         /\ position.speed_over_ground >= 0
         /\ ElapsedAtCall >= 0
         /\ Abs(position.latitude) <= 90 * UnitsPerDegree
         /\ Abs(position.longitude) <= 180 * UnitsPerDegree) =>
        /\ Abs(ret.latitude) <= 90 * UnitsPerDegree
        /\ Abs(ret.longitude) <= 180 * UnitsPerDegree

-----------------------------------------------------------------------------
RECURSIVE IsSubsequence(_, _)
IsSubsequence(a, b) ==
    IF a = <<>> THEN TRUE
    ELSE IF b = <<>> THEN FALSE
    ELSE IF Head(a) = Head(b) THEN IsSubsequence(Tail(a), Tail(b))
    ELSE IsSubsequence(a, Tail(b))

Densified == op = "densifyLineString"

\* C15: for a route of at least two points and a positive threshold, the
\* densified route contains all the original points in their original order,
\* first and last included, and no two consecutive points of it are farther
\* apart than the threshold.
C15_DensifyKeepsPoints ==
    (Densified /\ Len(cruisePath) >= 2) =>
        /\ IsSubsequence(cruisePath, ret)
        /\ ret[1] = cruisePath[1]
        /\ ret[Len(ret)] = cruisePath[Len(cruisePath)]
        /\ \A k \in 1..(Len(ret) - 1) : legLength(ret[k], ret[k + 1]) <= arg

C15_Witness ==
    /\ Densified
    /\ Len(cruisePath) = MaxRoutePoints
    /\ Len(ret) > Len(cruisePath)
    /\ \E k \in 1..(Len(ret) - 1) : legLength(ret[k], ret[k + 1]) = arg
    /\ \E k \in 1..(Len(ret) - 1) : legLength(ret[k], ret[k + 1]) < arg

-----------------------------------------------------------------------------
\* the least n with n * b >= a
CeilDiv(a, b) == CHOOSE n \in 0..a : n * b >= a /\ (n - 1) * b < a

\* how many points belong between the route's points i and i + 1
PointsDue(i) ==
    LET dist == legLength(cruisePath[i], cruisePath[i + 1])
    IN  IF dist > arg THEN CeilDiv(dist, arg) - 1 ELSE 0

\* where the route's point i then lies in the result
RECURSIVE IndexDue(_)
IndexDue(i) == IF i = 1 THEN 1 ELSE IndexDue(i - 1) + PointsDue(i - 1) + 1

-----------------------------------------------------------------------------
\* C17: densifyLineString of an empty route returns an empty route, of a
\* single point returns that point alone, and inserts nothing on a segment of
\* length zero; it never raises.
C17_DensifyDegenerate ==
    Densified =>
        /\ Len(cruisePath) = 0 => Len(ret) = 0
        /\ Len(cruisePath) = 1 => ret = cruisePath
        /\ (Len(cruisePath) >= 1
                /\ \A i \in 1..(Len(cruisePath) - 1) :
                       cruisePath[i] = cruisePath[i + 1]) =>
               ret = cruisePath

-----------------------------------------------------------------------------
\* C18: the timestamp on the fix predicted by predictPath is the very instant
\* from which the elapsed time, and so the distance and the end point, was
\* computed: the result depends on one reading of the clock alone.
C18_OneClockReading ==
    PathReturned => getTime(ret.endPosition.timestamp) = calledAt

-----------------------------------------------------------------------------
\* the ports the panel marks 'current'
CurrentMarks == { i \in 1..Len(ports) : ret[i] = "current" }

\* C19: the ports panel marks at most one port 'current'; it marks one
\* exactly when the fix is in port, and then the port nearest to the fix,
\* which lies within 1000 m; when a port is 'current' none is marked 'next'.
C19_OneCurrentPort ==
    op = "PortsListPanel" =>
        /\ Cardinality(CurrentMarks) <= 1
        /\ CurrentMarks # {} <=> (arg # Null /\ SomePortWithin1000m)
        /\ \A i \in CurrentMarks :
               /\ PortDistanceSq(i) < 1000 * 1000
               /\ \A j \in 1..Len(ports) : PortDistanceSq(i) <= PortDistanceSq(j)
        /\ CurrentMarks # {} => \A i \in 1..Len(ports) : ret[i] # "next"

C19_Witness ==
    /\ op = "PortsListPanel"
    /\ Cardinality(CurrentMarks) = 1
    /\ \E i, j \in 1..Len(ports) :
           /\ i # j
           /\ PortDistanceSq(i) < 1000 * 1000
           /\ PortDistanceSq(j) < 1000 * 1000
           /\ ports[j].dep_datetime # Null
           /\ getTime(ports[j].dep_datetime) > getTime(position.timestamp)
           /\ ret[i] = "current"

-----------------------------------------------------------------------------
\* C20: predictPath called with a route of fewer than two points does not
\* raise: the projection and the slice are the route's single point, and
\* that point is returned as the predicted position.
C20_ShortRoute ==
    (op = "predictPath" /\ Len(cruisePath) < 2 /\ DeadReckoned > 0) =>
        /\ ret # Raised
        /\ ret # Null
        /\ EndPoint = cruisePath[1]
        /\ \A k \in 2..Len(ret.path) : ret.path[k] = cruisePath[1]

-----------------------------------------------------------------------------
(* C21..C30 *)

\* the fix with another course and heading
Steered(cog, hdg) ==
    [position EXCEPT !.course_over_ground = cog, !.heading = hdg]

\* what predictPath returns for that fix, on the same route with the same
\* readings of the clock
PathSteered(cog, hdg) ==
    predictPath(Steered(cog, hdg), cruisePath, calledAt, now).returns

\* C27: predictPath ignores the fix's course and heading: a fix that differs
\* in them alone yields the same path and the same predicted latitude and
\* longitude, and the prediction lies at or after the fix's projection along
\* the route.
C27_CourseIgnored ==
    (op = "predictPath" /\ ret # Raised) =>
        /\ \A cog \in Courses, hdg \in Courses :
               IF ret = Null THEN PathSteered(cog, hdg) = Null
               ELSE /\ PathSteered(cog, hdg) # Null
                    /\ PathSteered(cog, hdg).path = ret.path
                    /\ PathSteered(cog, hdg).endPosition.latitude
                           = ret.endPosition.latitude
                    /\ PathSteered(cog, hdg).endPosition.longitude
                           = ret.endPosition.longitude
        /\ ret # Null => ArcLenOf(EndPoint) >= StartArcLen

\* a vessel steering west (270) along a route that runs east, predicted
\* eastwards all the same
C27_Witness ==
    /\ PathReturned
    /\ ArcLenOf(EndPoint) > StartArcLen
    /\ EndPoint[1] > Projection.coordinates[1]
    /\ PathSteered(270, 270) # Null
    /\ PathSteered(270, 270).path = ret.path
    /\ PathSteered(270, 270).endPosition.course_over_ground = 270

-----------------------------------------------------------------------------
\* what predictPath returns for the same fix and route at the instant t
PathAt(t) == predictPath(position, cruisePath, t, t).returns

\* the arc length of the end predicted at the instant t
EndArcLenAt(t) ==
    ArcLenOf(<<PathAt(t).endPosition.longitude, PathAt(t).endPosition.latitude>>)

\* C28: for a fixed fix and route the predicted end's arc length does not
\* decrease with the prediction instant: a later instant never places the
\* vessel earlier along the route, and once the end of the route is reached
\* every later prediction stays there.
C28_MonotoneInTime ==
    PathReturned =>
        \A t \in calledAt..MaxNow :
            /\ PathAt(t) # Null
            /\ EndArcLenAt(t) >= ArcLenOf(EndPoint)
            /\ ArcLenOf(EndPoint) = PathLength => EndArcLenAt(t) = PathLength

C28_Witness ==
    /\ PathReturned
    /\ ArcLenOf(EndPoint) < PathLength
    /\ \E t \in calledAt..(MaxNow - 1) :
           /\ EndArcLenAt(t) > ArcLenOf(EndPoint)
           /\ EndArcLenAt(t) < PathLength
           /\ EndArcLenAt(t + 1) = PathLength
    /\ EndArcLenAt(MaxNow) = PathLength

-----------------------------------------------------------------------------
\* C29: a port without a scheduled departure, the final one, is never
\* returned by getNextPort; so once the fix's timestamp is past the departure
\* of every port that has one, getNextPort returns null although the final
\* port is still ahead.
C29_FinalPortNeverNext ==
    op = "getNextPort" =>
        /\ ret # Null => ret.dep_datetime # Null
        /\ (\A i \in 1..Len(ports) :
                ports[i].dep_datetime # Null =>
                    getTime(ports[i].dep_datetime) <= getTime(position.timestamp))
               => ret = Null

\* the itinerary ends with the port without departure, the port before it
\* has left, and the vessel is nowhere near the final port
C29_Witness ==
    /\ op = "getNextPort"
    /\ Len(ports) = MaxPorts
    /\ ports[Len(ports)].dep_datetime = Null
    /\ ports[Len(ports) - 1].dep_datetime # Null
    /\ getTime(ports[Len(ports) - 1].dep_datetime) < getTime(position.timestamp)
    /\ PortDistanceSq(Len(ports)) > 1000 * 1000
    /\ ret = Null

-----------------------------------------------------------------------------
\* C30: densifyLineString is idempotent: densifying a densified route again
\* with the same threshold returns it unchanged.
C30_DensifyIdempotent ==
    Densified => densifyLineString(ret, arg) = ret

C30_Witness ==
    /\ Densified
    /\ Len(cruisePath) = MaxRoutePoints
    /\ Len(ret) >= Len(cruisePath) + 3
    /\ densifyLineString(ret, arg) = ret

-----------------------------------------------------------------------------
\* the positions are in the order of their timestamps
Chronological(seq) ==
    \A i \in 1..(Len(seq) - 1) :
        getTime(seq[i].timestamp) <= getTime(seq[i + 1].timestamp)

\* C23: in every state of the hook the positions are ordered by
\* non-decreasing timestamp, and a prediction that is held is derived from
\* the last of them: the predicted fix's id is that fix's id followed by
\* "-predicted".
C23_PredictionFromLast ==
    /\ Chronological(hook.positions)
    /\ hook.predictedPath # Null =>
           /\ hook.positions # <<>>
           /\ hook.predictedPath.endPosition.id
                  = last(hook.positions).id \o "-predicted"

C23_Witness ==
    /\ op = "response"
    /\ Len(arg) >= 2
    /\ arg # hook.positions
    /\ hook.predictedPath # Null
    /\ hook.predictedPath.endPosition.id = "fix2-predicted"

-----------------------------------------------------------------------------
\* the fetch that has just completed stored its positions
Stored == op = "response" /\ arg # <<>>

\* the last fix stored is in port or at most five minutes old
NoPredictionDue ==
    \/ isInPort(ports, last(hook.positions))
    \/ now - getTime(last(hook.positions).timestamp) <= STALE_MINUTES

\* C21: after a fetch that completed successfully the prediction held, the
\* predicted path of the hook and the dead-reckoned position of the page
\* alike, is non-null only if the last fix of the positions that fetch stored
\* is not in port and was more than five minutes old; a prediction of an
\* earlier fetch does not survive a later fetch whose last fix is fresh or in
\* port.
C21_Superseded ==
    Stored => /\ hook.positions = sortByTimestamp(arg)
              /\ NoPredictionDue => /\ hook.predictedPath = Null
                                    /\ hook.predictedPosition = Null

\* the part of it the hook keeps: its predicted path is cleared by every
\* fetch whose last fix is fresh or in port
PathSuperseded ==
    Stored /\ NoPredictionDue => hook.predictedPath = Null

\* a fetch has just stored a fresh second fix, and the hook holds no path
\* while the page still holds the position reckoned from the first fix
PositionOutlived ==
    /\ Stored
    /\ NoPredictionDue
    /\ last(hook.positions).id = "fix2"
    /\ hook.predictedPath = Null
    /\ hook.predictedPosition # Null
    /\ hook.predictedPosition.id = "fix1-predicted"

\* C22: under every interleaving of the first, the full and the polling
\* fetches the positions and the prediction held come from the most recently
\* issued fetch that has completed: a late response of an earlier request
\* never overwrites the result of a later one, and the timestamp of the last
\* fix held never decreases.
C22_LatestHeld ==
    [][/\ hook'.heldFrom = hook'.succeeded
       /\ (hook.positions # <<>> /\ hook'.positions # <<>>) =>
              getTime(last(hook'.positions).timestamp)
                  >= getTime(last(hook.positions).timestamp)]_vars

\* the response of an earlier request has replaced the two fixes a later
\* request had brought with the single older fix it was sent
OverwrittenByLate ==
    /\ Stored
    /\ hook.heldFrom < hook.succeeded
    /\ Len(hook.positions) = 1
    /\ Len(feed) = 2
    /\ getTime(feed[2].timestamp) <= now
    /\ getTime(last(hook.positions).timestamp) < getTime(feed[2].timestamp)

\* C24: the error of the hook is sticky: once a fetch has failed, error stays
\* non-null in every later state, also after later fetches succeed and
\* update the positions, so the page keeps showing the error view.
C24_ErrorSticky ==
    [][hook.error # Null =>
          /\ hook'.error # Null
          /\ ~hook'.loading => view(hook') = "error"]_vars

\* a fetch failed, and a later one has just succeeded and stored its fixes;
\* the error is still there and the page shows it
C24_Witness ==
    /\ Stored
    /\ hook.positions = sortByTimestamp(arg)
    /\ hook.heldFrom = hook.succeeded
    /\ hook.error = [message |-> "API error"]
    /\ view(hook) = "error"

\* C26: a fetch that returns zero fixes is handled as a failure: the hook
\* sets error, and the positions and the prediction keep the values they had
\* before that fetch; the positions are not replaced by the empty list.
C26_EmptyIsFailure ==
    [][(op' = "response" /\ arg' = <<>>) =>
          /\ hook'.error # Null
          /\ hook'.positions = hook.positions
          /\ hook'.predictedPath = hook.predictedPath]_vars

\* fixes and a prediction were held and no fetch had failed when a fetch
\* returned nothing: they are still held, beside the TypeError's message
C26_Witness ==
    /\ op = "response"
    /\ arg = <<>>
    /\ hook.positions # <<>>
    /\ hook.predictedPath # Null
    /\ hook.error = [message |-> "Cannot read properties of undefined"]

\* the first (24-hour) fetch settles in this step
FirstSettles ==
    \E r \in hook.inFlight : r.kind = "first" /\ r \notin hook'.inFlight

\* C25: once the settings are there, loading becomes false when the first
\* (24-hour) fetch settles, whether it succeeds or fails, which it
\* eventually does, and loading never becomes true again; while the settings
\* are missing no fetch is issued and loading stays true.
C25_LoadingEnds ==
    /\ [](hook.settings = Null =>
             hook.loading /\ hook.inFlight = {} /\ hook.issued = 0)
    /\ [][/\ FirstSettles => ~hook'.loading
          /\ ~hook.loading => ~hook'.loading
          /\ (hook.loading /\ ~hook'.loading) => FirstSettles]_vars
    /\ (hook.settings # Null ~> ~hook.loading)

\* the first fetch has just failed: nothing was stored, the error is set and
\* the spinner is gone, with the fetch of the whole cruise on its way
C25_Witness ==
    /\ op = "failure"
    /\ hook.issued = 2
    /\ hook.positions = <<>>
    /\ hook.error # Null
    /\ ~hook.loading
    /\ \E r \in hook.inFlight : r.kind = "full"

====
